---- MODULE Spec2Model ----
\* Model of kale/embed/deep_dta.py: the three torch modules DeepDTAEncoder,
\* DrugGCNEncoder and MLPDecoder.  A tensor is a rank together with nested
\* sequences of integers; its shape is derived from the data.  A module is
\* constructed once (Init), then forward, train() and eval() are called in any
\* order.  Layer arithmetic is integer arithmetic on small weights.
EXTENDS Integers, Sequences, FiniteSets, TLC

VARIABLES kind, hp, params, training, call, ref

vars == <<kind, hp, params, training, call, ref>>

\* ---------------------------------------------------------------- bounds
MaxBatch == 2        \* rows B of an input, graphs G of a batch
MaxSeqLen == 2       \* sequence_length, and the length L of an input row
MaxKernels == 1      \* num_kernels
MaxDim == 2          \* in_dim, hidden_dim, out_dim, in_channel, out_channel
MaxNodes == 2        \* nodes of a batch of graphs

\* weight initialisations tried
Seeds == {1, 2}

\* embedding_dim: too narrow and wide enough for three convolutions of length 2
EmbeddingDims == {1, 4}

\* kernel_length
KernelLengths == {1, 2}

\* num_embeddings
NumEmbeddings == {2}

\* ---------------------------------------------------------------- tensors
None == [err |-> "none", rank |-> 0, data |-> <<>>]

Tensor(r, d) == [err |-> "", rank |-> r, data |-> d]

Error(e) == [err |-> e, rank |-> 0, data |-> <<>>]

IsOk(t) == t.err = ""

\* torch.Size of a tensor of rank 1..3 (every dimension here is >= 1)
Shape(t) ==
  IF t.rank = 1 THEN <<Len(t.data)>>
  ELSE IF t.rank = 2 THEN <<Len(t.data), Len(t.data[1])>>
  ELSE <<Len(t.data), Len(t.data[1]), Len(t.data[1][1])>>

RECURSIVE SumSeq(_)
SumSeq(s) == IF s = <<>> THEN 0 ELSE Head(s) + SumSeq(Tail(s))

RECURSIVE MaxSeq(_)
MaxSeq(s) ==
  IF Len(s) = 1 THEN s[1]
  ELSE LET m == MaxSeq(Tail(s)) IN IF s[1] >= m THEN s[1] ELSE m

\* elementwise map of max(v, 0) over nested data of the given rank
RECURSIVE ReluData(_, _)
ReluData(d, r) ==
  IF r = 0 THEN (IF d > 0 THEN d ELSE 0)
  ELSE [i \in 1..Len(d) |-> ReluData(d[i], r - 1)]

\* F.relu / nn.ReLU
Relu(t) == IF IsOk(t) THEN Tensor(t.rank, ReluData(t.data, t.rank)) ELSE t

\* weight and input values of an initialisation: small integers in -1..1
Wgt(seed, layer, o, i, j) == ((seed * 2 + layer + o * 2 + i + j) % 3) - 1

\* nn.Linear(in_features, out_features): weight (out, in), bias (out)
LinearInit(seed, layer, in, out) ==
  [weight |-> [o \in 1..out |-> [i \in 1..in |-> Wgt(seed, layer, o, i, 0)]],
   bias |-> [o \in 1..out |-> Wgt(seed, layer, o, 0, 1)]]

\* nn.Linear.forward on a rank-2 input (B, in_features); `unit` is the value
\* that stands for 1 in the input's fixed-point scale (1 for plain integers)
LinearScaled(l, t, unit) ==
  IF ~IsOk(t) THEN t
  ELSE IF Shape(t)[t.rank] # Len(l.weight[1]) THEN Error("RuntimeError")
  ELSE Tensor(2, [b \in 1..Len(t.data) |-> [o \in 1..Len(l.weight) |->
         l.bias[o] * unit
         + SumSeq([i \in 1..Len(l.weight[o]) |-> l.weight[o][i] * t.data[b][i]])]])

Linear(l, t) == LinearScaled(l, t, 1)

\* a dropout layer that stays active in evaluation mode
DropoutAlways(t, train, mask) ==
  IF ~IsOk(t) THEN t
  ELSE Tensor(2, [b \in 1..Len(t.data) |-> [o \in 1..Len(t.data[b]) |->
         IF <<b, o>> \in mask THEN 0 ELSE 2 * t.data[b][o]]])

\* nn.Dropout(p) with p = 1/2: in training mode an element is zeroed where the
\* mask says so and scaled by 1 / (1 - p) = 2 elsewhere; identity in eval mode.
\* mask is a set of positions <<row, column>> that are dropped.
Dropout(t, train, mask) ==
  IF ~IsOk(t) \/ ~train THEN t
  ELSE Tensor(2, [b \in 1..Len(t.data) |-> [o \in 1..Len(t.data[b]) |->
         IF <<b, o>> \in mask THEN 0 ELSE 2 * t.data[b][o]]])

\* the random masks a dropout layer may draw for a (rows, cols) tensor:
\* nothing dropped, and a checkerboard that drops position <<1, 1>>
Masks(rows, cols) ==
  LET all == (1..rows) \X (1..cols)
  IN {{}, {q \in all : (q[1] + q[2]) % 2 = 0}}

\* nn.Embedding(num_rows, dim): weight (num_rows, dim)
EmbeddingInit(seed, rows, dim) ==
  [weight |-> [r \in 1..rows |-> [e \in 1..dim |-> Wgt(seed, 0, r, e, 0)]]]

\* nn.Embedding.forward on a rank-2 integer input (B, L): a table lookup, an
\* IndexError when a label is outside 0..num_rows-1
Embedding(l, t) ==
  IF ~IsOk(t) THEN t
  ELSE IF \E b \in 1..Len(t.data) : \E k \in 1..Len(t.data[b]) :
            t.data[b][k] < 0 \/ t.data[b][k] >= Len(l.weight)
    THEN Error("IndexError")
  ELSE Tensor(3, [b \in 1..Len(t.data) |-> [k \in 1..Len(t.data[b]) |->
         l.weight[t.data[b][k] + 1]]])

\* nn.Conv1d(in_channels, out_channels, kernel_size): weight (out, in, k), bias (out)
Conv1dInit(seed, layer, in, out, k) ==
  [weight |-> [o \in 1..out |-> [c \in 1..in |-> [j \in 1..k |->
                 Wgt(seed, layer, o, c, j)]]],
   bias |-> [o \in 1..out |-> Wgt(seed, layer, o, 0, 0)]]

\* nn.Conv1d.forward on a rank-3 input (B, C, W), stride 1 and no padding:
\* C must be in_channels and W at least kernel_size; the result is
\* (B, out_channels, W - kernel_size + 1)
Conv1d(l, t) ==
  LET in == Len(l.weight[1])
      k == Len(l.weight[1][1])
  IN IF ~IsOk(t) THEN t
     ELSE IF Shape(t)[2] # in \/ Shape(t)[3] < k THEN Error("RuntimeError")
     ELSE Tensor(3, [b \in 1..Len(t.data) |-> [o \in 1..Len(l.weight) |->
            [w \in 1..(Shape(t)[3] - k + 1) |->
               l.bias[o]
               + SumSeq([c \in 1..in |-> SumSeq([j \in 1..k |->
                   l.weight[o][c][j] * t.data[b][c][w + j - 1]])])]]])

\* nn.AdaptiveMaxPool1d(output_size=1) on (B, C, W): the maximum over W
AdaptiveMaxPool1d(t) ==
  IF ~IsOk(t) THEN t
  ELSE Tensor(3, [b \in 1..Len(t.data) |-> [c \in 1..Len(t.data[b]) |->
         <<MaxSeq(t.data[b][c])>>]])

\* Tensor.squeeze() without a dimension: a batch of one row loses its
\* batch dimension too
SqueezeAll(t) ==
  IF ~IsOk(t) THEN t
  ELSE IF t.rank = 3 /\ Shape(t)[3] = 1 /\ Shape(t)[1] = 1
    THEN Tensor(1, [c \in 1..Len(t.data[1]) |-> t.data[1][c][1]])
  ELSE IF t.rank = 3 /\ Shape(t)[3] = 1
    THEN Tensor(2, [b \in 1..Len(t.data) |-> [c \in 1..Len(t.data[b]) |->
           t.data[b][c][1]]])
  ELSE t

\* Tensor.squeeze(2) on a rank-3 tensor: dimension 2 is removed when its size is 1
Squeeze2(t) ==
  IF ~IsOk(t) THEN t
  ELSE IF t.rank = 3 /\ Shape(t)[3] = 1
    THEN Tensor(2, [b \in 1..Len(t.data) |-> [c \in 1..Len(t.data[b]) |->
           t.data[b][c][1]]])
  ELSE t

\* an exception ends forward: the steps up to and including the first failure
RECURSIVE Executed(_)
Executed(tr) ==
  IF tr = <<>> THEN <<>>
  ELSE IF ~IsOk(tr[1].out) THEN <<tr[1]>>
  ELSE <<tr[1]>> \o Executed(Tail(tr))

Step(name, t) == [op |-> name, out |-> t]

\* ------------------------------------------------------- DeepDTAEncoder
DeepDTAEncoderInit(h, seed) ==
  [embedding |-> EmbeddingInit(seed, h.num_embeddings + 1, h.embedding_dim),
   conv1 |-> Conv1dInit(seed, 1, h.sequence_length, h.num_kernels, h.kernel_length),
   conv2 |-> Conv1dInit(seed, 2, h.num_kernels, h.num_kernels * 2, h.kernel_length),
   conv3 |-> Conv1dInit(seed, 3, h.num_kernels * 2, h.num_kernels * 3, h.kernel_length)]

DeepDTAEncoderForward(p, x) ==
  LET e == Embedding(p.embedding, x)
      c1 == Conv1d(p.conv1, e)
      r1 == Relu(c1)
      c2 == Conv1d(p.conv2, r1)
      r2 == Relu(c2)
      c3 == Conv1d(p.conv3, r2)
      r3 == Relu(c3)
      g == AdaptiveMaxPool1d(r3)
      s == Squeeze2(g)
  IN Executed(<<Step("embedding", e), Step("conv1", c1), Step("relu", r1),
                Step("conv2", c2), Step("relu", r2), Step("conv3", c3),
                Step("relu", r3), Step("global_max_pool", g), Step("squeeze", s)>>)

\* ----------------------------------------------------------- MLPDecoder
\* fc3 sized like the hidden layers, out_dim left to fc4 alone
MLPDecoderInitHiddenFc3(h, seed) ==
  [fc1 |-> LinearInit(seed, 1, h.in_dim, h.hidden_dim),
   fc2 |-> LinearInit(seed, 2, h.hidden_dim, h.hidden_dim),
   fc3 |-> LinearInit(seed, 3, h.hidden_dim, h.hidden_dim),
   fc4 |-> LinearInit(seed, 4, h.out_dim, 1)]

MLPDecoderInit(h, seed) ==
  [fc1 |-> LinearInit(seed, 1, h.in_dim, h.hidden_dim),
   fc2 |-> LinearInit(seed, 2, h.hidden_dim, h.hidden_dim),
   fc3 |-> LinearInit(seed, 3, h.hidden_dim, h.out_dim),
   fc4 |-> LinearInit(seed, 4, h.out_dim, 1)]

\* forward that returns after fc3 and its ReLU, without the final layer fc4
MLPDecoderForwardNoFc4(p, x, train, mask1, mask2) ==
  LET l1 == Linear(p.fc1, x)
      r1 == Relu(l1)
      d1 == Dropout(r1, train, mask1)
      l2 == Linear(p.fc2, d1)
      r2 == Relu(l2)
      d2 == Dropout(r2, train, mask2)
      l3 == Linear(p.fc3, d2)
      r3 == Relu(l3)
  IN Executed(<<Step("fc1", l1), Step("relu", r1), Step("dropout", d1),
                Step("fc2", l2), Step("relu", r2), Step("dropout", d2),
                Step("fc3", l3), Step("relu", r3)>>)

MLPDecoderForward(p, x, train, mask1, mask2) ==
  LET l1 == Linear(p.fc1, x)
      r1 == Relu(l1)
      d1 == Dropout(r1, train, mask1)
      l2 == Linear(p.fc2, d1)
      r2 == Relu(l2)
      d2 == Dropout(r2, train, mask2)
      l3 == Linear(p.fc3, d2)
      r3 == Relu(l3)
      l4 == Linear(p.fc4, r3)
  IN Executed(<<Step("fc1", l1), Step("relu", r1), Step("dropout", d1),
                Step("fc2", l2), Step("relu", r2), Step("dropout", d2),
                Step("fc3", l3), Step("relu", r3), Step("fc4", l4)>>)

\* ------------------------------------------------------- DrugGCNEncoder
\* torch_geometric GCNConv(in_channels, out_channels): lin.weight (out, in), bias (out)
GCNConvInit(seed, layer, in, out) == LinearInit(seed, layer, in, out)

\* nodes with an edge into node i
Nbrs(edges, i) == {j \in {e[1] : e \in edges} : <<j, i>> \in edges}

\* GCNConv.forward: out_i = sum over j in N(i) + {i} of (W x_j) / sqrt(d_i d_j) + b,
\* d = 1 + in-degree (self loops added).  The edge sets used are symmetric with
\* at most one neighbour per node, so d_i = d_j = d and the coefficient is 1 / d
\* with d in {1, 2}.  Values are fixed-point: the input holds value * unit, the
\* result holds value * 2 * unit, which keeps the halves exact.
GCNConv(l, t, edges, unit) ==
  IF ~IsOk(t) THEN t
  ELSE IF Shape(t)[2] # Len(l.weight[1]) THEN Error("RuntimeError")
  ELSE LET lin == [i \in 1..Len(t.data) |-> [o \in 1..Len(l.weight) |->
                     SumSeq([c \in 1..Len(l.weight[o]) |->
                        l.weight[o][c] * t.data[i][c]])]]
       IN Tensor(2, [i \in 1..Len(t.data) |-> [o \in 1..Len(l.weight) |->
            (IF Nbrs(edges, i) = {}
             THEN 2 * lin[i][o]
             ELSE lin[i][o] + lin[CHOOSE j \in Nbrs(edges, i) : TRUE][o])
            + l.bias[o] * 2 * unit]])

\* no pooling: the node rows are passed on as they are
GlobalMaxPoolSkipped(t, batch) == t

\* torch_geometric global_max_pool(x, batch): one row per graph id
\* 0..max(batch), the elementwise maximum over the graph's nodes
GlobalMaxPool(t, batch) ==
  IF ~IsOk(t) THEN t
  ELSE Tensor(2, [g \in 1..(MaxSeq(batch) + 1) |-> [c \in 1..Len(t.data[1]) |->
         LET nodes == SelectSeq([i \in 1..Len(batch) |-> i],
                                LAMBDA i : batch[i] = g - 1)
         IN MaxSeq([k \in 1..Len(nodes) |-> t.data[nodes[k]][c]])]])

DrugGCNEncoderInit(h, seed) ==
  [conv1 |-> GCNConvInit(seed, 1, h.in_channel, h.in_channel),
   conv2 |-> GCNConvInit(seed, 2, h.in_channel, h.in_channel * 2),
   conv3 |-> GCNConvInit(seed, 3, h.in_channel * 2, h.in_channel * 4),
   fc |-> LinearInit(seed, 4, h.in_channel * 4, h.out_channel)]

\* dropout applied before the fully connected layer instead of after it
DrugGCNEncoderForwardDropoutFirst(p, x, edge_index, batch, train, mask) ==
  LET c1 == GCNConv(p.conv1, x, edge_index, 1)
      r1 == Relu(c1)
      c2 == GCNConv(p.conv2, r1, edge_index, 2)
      r2 == Relu(c2)
      c3 == GCNConv(p.conv3, r2, edge_index, 4)
      r3 == Relu(c3)
      g == GlobalMaxPool(r3, batch)
      d == Dropout(g, train, mask)
      f == LinearScaled(p.fc, d, 8)
  IN Executed(<<Step("conv1", c1), Step("relu", r1), Step("conv2", c2),
                Step("relu", r2), Step("conv3", c3), Step("relu", r3),
                Step("global_max_pool", g), Step("dropout", d), Step("fc", f)>>)

DrugGCNEncoderForward(p, x, edge_index, batch, train, mask) ==
  LET c1 == GCNConv(p.conv1, x, edge_index, 1)
      r1 == Relu(c1)
      c2 == GCNConv(p.conv2, r1, edge_index, 2)
      r2 == Relu(c2)
      c3 == GCNConv(p.conv3, r2, edge_index, 4)
      r3 == Relu(c3)
      g == GlobalMaxPool(r3, batch)
      f == LinearScaled(p.fc, g, 8)
      d == Dropout(f, train, mask)
  IN Executed(<<Step("conv1", c1), Step("relu", r1), Step("conv2", c2),
                Step("relu", r2), Step("conv3", c3), Step("relu", r3),
                Step("global_max_pool", g), Step("fc", f), Step("dropout", d)>>)

\* ------------------------------------------------------------ the inputs
NoInput == [x |-> None, edge_index |-> {}, batch |-> <<>>]

NoCall == [input |-> NoInput, training |-> FALSE, trace |-> <<>>, out |-> None]

\* integer-encoded sequences (B, L) with labels 0..num_embeddings, and one
\* sequence (1, sequence_length) that starts with the label num_embeddings + 1,
\* which the embedding table does not hold
EncoderInputs(h) ==
  {[NoInput EXCEPT !.x = Tensor(2, [b \in 1..B |-> [k \in 1..L |->
       (b + k) % (h.num_embeddings + 1)]])] :
     B \in 1..MaxBatch, L \in 1..MaxSeqLen}
  \cup
  {[NoInput EXCEPT !.x = Tensor(2, <<[k \in 1..h.sequence_length |->
       IF k = 1 THEN h.num_embeddings + 1 ELSE 0]>>)]}

\* feature rows (B, width), of width in_dim or one more
DecoderInputs(h) ==
  {[NoInput EXCEPT !.x = Tensor(2, [b \in 1..B |-> [i \in 1..width |->
       Wgt(1, 0, b, i, 0)]])] :
     B \in 1..MaxBatch, width \in {h.in_dim, h.in_dim + 1}}

\* batch vectors as a loader builds them: graph ids 0..G-1 in order, every
\* graph with at least one node
Batches(n) ==
  {b \in [1..n -> 0..(MaxBatch - 1)] :
     b[1] = 0 /\ \A i \in 1..(n - 1) : b[i + 1] - b[i] \in {0, 1}}

\* undirected edges i -- i+1 for the nodes i = first, first + 2, ... whose
\* neighbour belongs to the same graph (first = 0: no edge at all)
Pairing(batch, first) ==
  LET pairs == {i \in 1..(Len(batch) - 1) :
                  first > 0 /\ i >= first /\ (i - first) % 2 = 0
                  /\ batch[i] = batch[i + 1]}
  IN {<<i, i + 1>> : i \in pairs} \cup {<<i + 1, i>> : i \in pairs}

\* node features (N, in_channel) of a batch of graphs, without and with edges
GraphInputs(h) ==
  {[x |-> Tensor(2, [i \in 1..Len(batch) |-> [c \in 1..h.in_channel |->
              Wgt(1, 0, i, c, 0)]]),
    edge_index |-> Pairing(batch, first),
    batch |-> batch] :
     batch \in UNION {Batches(n) : n \in 1..MaxNodes}, first \in 0..1}

\* ------------------------------------------------------- the state machine
Kinds == {"DeepDTAEncoder", "DrugGCNEncoder", "MLPDecoder"}

HyperParams(k) ==
  IF k = "DeepDTAEncoder"
  THEN [num_embeddings : NumEmbeddings, embedding_dim : EmbeddingDims,
        sequence_length : 1..MaxSeqLen, num_kernels : 1..MaxKernels,
        kernel_length : KernelLengths]
  ELSE IF k = "DrugGCNEncoder"
  THEN [in_channel : 1..MaxDim, out_channel : 1..MaxDim]
  ELSE [in_dim : 1..MaxDim, hidden_dim : 1..MaxDim, out_dim : 1..MaxDim]

\* __init__: the layers with freshly initialised weights
Construct(k, h, seed) ==
  IF k = "DeepDTAEncoder" THEN DeepDTAEncoderInit(h, seed)
  ELSE IF k = "DrugGCNEncoder" THEN DrugGCNEncoderInit(h, seed)
  ELSE MLPDecoderInit(h, seed)

\* nn.Module starts in training mode
Init ==
  /\ kind \in Kinds
  /\ hp \in HyperParams(kind)
  /\ \E seed \in Seeds : params = Construct(kind, hp, seed)
  /\ training = TRUE
  /\ call = NoCall
  /\ ref = NoCall

\* forward returns (or raises): the call is recorded; ref keeps the first
\* call made in evaluation mode.  forward assigns no attribute of self.
Return(inp, tr) ==
  LET c == [input |-> inp, training |-> training, trace |-> tr,
            out |-> tr[Len(tr)].out]
  IN /\ call' = c
     /\ ref' = IF ref = NoCall /\ ~training THEN c ELSE ref
     /\ UNCHANGED <<kind, hp, params, training>>

ForwardDeepDTAEncoder ==
  /\ kind = "DeepDTAEncoder"
  /\ \E inp \in EncoderInputs(hp) :
       Return(inp, DeepDTAEncoderForward(params, inp.x))

ForwardDrugGCNEncoder ==
  /\ kind = "DrugGCNEncoder"
  /\ \E inp \in GraphInputs(hp) :
       \E mask \in Masks(MaxSeq(inp.batch) + 1, hp.out_channel) :
         Return(inp, DrugGCNEncoderForward(params, inp.x, inp.edge_index,
                                           inp.batch, training, mask))

ForwardMLPDecoder ==
  /\ kind = "MLPDecoder"
  /\ \E inp \in DecoderInputs(hp) :
       \E mask1, mask2 \in Masks(Len(inp.x.data), hp.hidden_dim) :
         Return(inp, MLPDecoderForward(params, inp.x, training, mask1, mask2))

\* nn.Module.train()
Train ==
  /\ ~training
  /\ training' = TRUE
  /\ UNCHANGED <<kind, hp, params, call, ref>>

\* nn.Module.eval()
Eval ==
  /\ training
  /\ training' = FALSE
  /\ UNCHANGED <<kind, hp, params, call, ref>>

Next ==
  \/ ForwardDeepDTAEncoder
  \/ ForwardDrugGCNEncoder
  \/ ForwardMLPDecoder
  \/ Train
  \/ Eval

Spec == Init /\ [][Next]_vars

\* ------------------------------------------------------------ properties
Called(k) == kind = k /\ call # NoCall

Rows(c) == Len(c.input.x.data)

Cols(c) == Len(c.input.x.data[1])

Ops(c) == [i \in 1..Len(c.trace) |-> c.trace[i].op]

\* every element of a rank-2 tensor satisfies P
AllOf(t, P(_)) == \A b \in 1..Len(t.data) : \A o \in 1..Len(t.data[b]) : P(t.data[b][o])

C2_FixedSizeFeature ==
  (Called("DeepDTAEncoder") /\ Cols(call) = hp.sequence_length /\ IsOk(call.out))
    => /\ call.out.rank = 2
       /\ Shape(call.out) = <<Rows(call), 3 * hp.num_kernels>>

\* a single sequence has been encoded by three convolutions of length 2
C2_Witness ==
  /\ Called("DeepDTAEncoder") /\ IsOk(call.out)
  /\ Rows(call) = 1 /\ hp.embedding_dim = 4 /\ hp.kernel_length = 2

\* the number of graphs of a batch: the distinct graph ids of its nodes
Graphs(c) == Cardinality({c.input.batch[i] : i \in 1..Len(c.input.batch)})

\* C3: DrugGCNEncoder.forward on a batch of G graphs returns a tensor of shape
\* (G, out_channel), whatever the numbers of nodes and edges are.
C3_FeaturePerGraph ==
  Called("DrugGCNEncoder")
    => /\ IsOk(call.out)
       /\ call.out.rank = 2
       /\ Shape(call.out) = <<Graphs(call), hp.out_channel>>

\* one graph of two nodes joined by an edge has been encoded
C3_Witness ==
  /\ Called("DrugGCNEncoder") /\ IsOk(call.out)
  /\ Graphs(call) = 1 /\ Rows(call) = 2 /\ call.input.edge_index # {}
  /\ hp.out_channel = 2

\* embedding_dim is large enough for the three convolutions
WideEnough(h) == h.embedding_dim >= 3 * h.kernel_length - 2

ValidLabels(c, h) ==
  AllOf(c.input.x, LAMBDA v : v >= 0 /\ v <= h.num_embeddings)

\* C4: DeepDTAEncoder.forward accepts every input of shape (B, L) with
\* 1 <= L <= sequence_length, valid labels and a wide enough embedding.
C4_AcceptsUpToMaxLength ==
  (/\ Called("DeepDTAEncoder")
   /\ Cols(call) <= hp.sequence_length
   /\ ValidLabels(call, hp)
   /\ WideEnough(hp))
    => IsOk(call.out)

C7_LayerOrder ==
  Called("DrugGCNEncoder")
    => /\ Ops(call) = <<"conv1", "relu", "conv2", "relu", "conv3", "relu",
                        "global_max_pool", "fc", "dropout">>
       /\ \A i \in {2, 4, 6} : AllOf(call.trace[i].out, LAMBDA v : v >= 0)
       /\ Shape(call.trace[6].out) = <<Rows(call), 4 * hp.in_channel>>
       /\ Shape(call.trace[7].out) = <<Graphs(call), 4 * hp.in_channel>>
       /\ AllOf(call.trace[7].out, LAMBDA v : v >= 0)
       /\ Shape(call.trace[8].out) = <<Graphs(call), hp.out_channel>>
       /\ \A g \in 1..Graphs(call) : \A o \in 1..hp.out_channel :
            call.out.data[g][o] \in
              (IF call.training
               THEN {0, 2 * call.trace[8].out.data[g][o]}
               ELSE {call.trace[8].out.data[g][o]})

\* a training-mode forward has returned a negative element, which no ReLU
\* after the fully connected layer would let through, next to a dropped one
C7_Witness ==
  /\ Called("DrugGCNEncoder") /\ call.training
  /\ \E g \in 1..Graphs(call) : \E o \in 1..hp.out_channel :
       call.out.data[g][o] < 0
  /\ \E g \in 1..Graphs(call) : \E o \in 1..hp.out_channel :
       call.out.data[g][o] = 0 /\ call.trace[8].out.data[g][o] # 0

====
